---- MODULE Spec2Model ----
(***************************************************************************)
(* The agent loop (src/agent.py, run_agent) and the tool dispatcher        *)
(* (src/tools.py, run_tool_call and its four handlers) of the Morphik      *)
(* spreadsheet example, with the retrieval service and the model service   *)
(* as nondeterministic collaborators.                                      *)
(***************************************************************************)
EXTENDS Integers, Sequences, FiniteSets

\* ------------------------------------------------------------------ bounds

\* Largest integer a tool argument takes (chunk numbers, pages, k).
MaxNum == 3
\* Largest number of output items in one model response.
MaxBatch == 2
\* Largest number of model responses (rounds) in one query.
MaxRounds == 2
\* Largest number of queries (run_agent invocations) of the process.
MaxQueries == 2

\* ------------------------------------------------- JSON / Python values

\* A decoded JSON value, as Python holds it. t is the Python type; n is the
\* number (a bool as 0/1, a float in tenths, a list as its length); s the text.
Val(t, n, s) == [t |-> t, n |-> n, s |-> s]
\* The key is not in the dict.
Absent == Val("absent", 0, "")
None == Val("null", 0, "")
PyBool(b) == Val("bool", IF b THEN 1 ELSE 0, "")
PyInt(n) == Val("int", n, "")
\* A float, given in tenths: PyFloat(25) is 2.5.
PyFloat(tenths) == Val("float", tenths, "")
PyStr(s) == Val("str", 0, s)
\* A list of the given length.
PyList(len) == Val("list", len, "")

\* Mutant of Truthy: `x is not None` for `x`.
TruthyNotNone(v) == v.t \notin {"absent", "null"}

\* Python truthiness (`not x`, `x or y`).
Truthy(v) ==
    CASE v.t \in {"absent", "null"} -> FALSE
      [] v.t \in {"bool", "int", "float", "list"} -> v.n # 0
      [] v.t = "str" -> v.s # ""
      [] OTHER -> TRUE

\* `x or d`
PyOr(v, d) == IF Truthy(v) THEN v ELSE d

\* The decimal strings int() accepts, among the strings of the model.
NumStrings == {"-1", "0", "1", "2", "3"}
StrToInt(s) ==
    CASE s = "-1" -> -1
      [] s = "0" -> 0
      [] s = "1" -> 1
      [] s = "2" -> 2
      [] s = "3" -> 3
      [] OTHER -> 0

\* Truncation toward zero of a number given in tenths.
Trunc(tenths) == IF tenths >= 0 THEN tenths \div 10 ELSE -((-tenths) \div 10)

\* An exception: its Python class and message. NoExc: nothing was raised.
Exc(cls, msg) == [cls |-> cls, msg |-> msg]
NoExc == Exc("none", "")

\* int(v): the integer, or the exception int() raises.
IntOf(v) ==
    CASE v.t \in {"bool", "int"} -> [exc |-> NoExc, n |-> v.n]
      [] v.t = "float" -> [exc |-> NoExc, n |-> Trunc(v.n)]
      [] v.t = "str" /\ v.s \in NumStrings -> [exc |-> NoExc, n |-> StrToInt(v.s)]
      [] v.t = "str" /\ v.s \notin NumStrings ->
            [exc |-> Exc("ValueError", "invalid literal for int()"), n |-> 0]
      [] OTHER -> [exc |-> Exc("TypeError", "int() argument must be a string or a number"), n |-> 0]

\* str.lower() on the strings of the model.
Lower(s) ==
    CASE s \in {"TRUE", "True", "true"} -> "true"
      [] s \in {"FALSE", "False", "false"} -> "false"
      [] OTHER -> s

\* ------------------------------------------------------ argument dicts

\* A decoded argument object: every key of every tool, Absent where the key
\* is not in the dict.
EmptyArgs ==
    [query |-> Absent, k |-> Absent,
     document_id |-> Absent, start_page |-> Absent, end_page |-> Absent,
     start_chunk |-> Absent, end_chunk |-> Absent,
     skip |-> Absent, limit |-> Absent, completed_only |-> Absent,
     sort_by |-> Absent, sort_direction |-> Absent,
     document_external_id |-> Absent]

\* arguments.get(key): None when the key is missing.
Get(v) == IF v.t = "absent" THEN None ELSE v
\* arguments.get(key, default): the default only when the key is missing.
GetDefault(v, d) == IF v.t = "absent" THEN d ELSE v

\* --------------------------------------------------------- constants

DEFAULT_PAGE_OUTPUT_FORMAT == "url"
DEFAULT_CHUNK_OUTPUT_FORMAT == "url"
\* The defaults of `arguments.get(key) or <default>`.
DefaultK == 4
DefaultSkip == 0
DefaultLimit == 100

\* The documents the retrieval service holds.
DocIds == {"d1", "d2"}

\* ------------------------------------------- the collaborators' replies

\* What the collaborators do during one dispatch, chosen by the environment:
\* morphik, file, upload: "ok" or the exception class the call raises;
\* order: how the retrieval service orders its reply; filename: the
\* document's own filename; file_id: the id the model service gives the next
\* uploaded file.
MkEnv(m, f, u, o, fn, id) ==
    [morphik |-> m, file |-> f, upload |-> u, order |-> o, filename |-> fn, file_id |-> id]

\* A chunk as the retrieval service returns it. Chunk 1 of a document is
\* text, chunk 2 an image (it has a size), every other one another object.
ChunkContent(n) ==
    CASE n = 1 -> [kind |-> "text", v |-> "refunds within 30 days"]
      [] n = 2 -> [kind |-> "image", v |-> "640x480"]
      [] OTHER -> [kind |-> "object", v |-> "table"]
Chunk(doc, n, score) ==
    [document_id |-> doc, chunk_number |-> n, score |-> score,
     content |-> ChunkContent(n), metadata |-> "meta", content_type |-> "text/plain",
     filename |-> "report.xlsx", download_url |-> "https://files/report.xlsx"]

Reverse(s) == [i \in 1..Len(s) |-> s[Len(s) + 1 - i]]
Min(a, b) == IF a <= b THEN a ELSE b

\* morphik.retrieve_chunks: at most k chunks, by descending score.
Ranked == << Chunk("d1", 1, 9), Chunk("d2", 2, 7), Chunk("d1", 3, 5) >>
RetrieveReply(k, env) ==
    LET n == IF k < 1 THEN 0 ELSE Min(k, Len(Ranked))
    IN  IF env.order = "short" THEN SubSeq(Ranked, 1, Min(n, 1)) ELSE SubSeq(Ranked, 1, n)

\* morphik.batch_get_chunks: one chunk per source, in the order the service
\* chooses ("short": the last source's chunk is missing).
BatchReply(sources, env) ==
    LET all == [i \in 1..Len(sources) |->
                    Chunk(sources[i].document_id, sources[i].chunk_number, 0)]
    IN  CASE env.order = "reversed" -> Reverse(all)
          [] env.order = "short" /\ Len(all) > 0 -> SubSeq(all, 1, Len(all) - 1)
          [] OTHER -> all

\* morphik.extract_document_pages(...).model_dump()
PagesReply(document_id, start_page, end_page) ==
    [document_id |-> document_id, start_page |-> start_page, end_page |-> end_page,
     total_pages |-> 2, pages |-> [i \in 1..(end_page - start_page + 1) |-> "https://pages/p"]]

\* morphik.list_documents(...).model_dump()
ListingReply(skip, limit) ==
    [documents |-> DocIds, skip |-> skip, limit |-> limit, returned_count |-> 2,
     total_count |-> 2, has_more |-> FALSE]

\* ------------------------------------------------------------ handlers

\* What one handler call did: the exception it raised (NoExc: it returned
\* result), the calls it made to the two services, in order, and the session
\* state it leaves.
Out(exc, result, calls, file_ids, loaded_files) ==
    [exc |-> exc, result |-> result, calls |-> calls,
     file_ids |-> file_ids, loaded_files |-> loaded_files]
NoResult == [type |-> "none"]
\* Mutant of Raise: a handler that raises leaves an empty session state.
RaiseClearing(exc, calls, state) == Out(exc, NoResult, calls, {}, << >>)
Raise(exc, calls, state) == Out(exc, NoResult, calls, state.file_ids, state.loaded_files)
\* Mutant of Return: a handler that returns leaves an empty session state.
ReturnClearing(result, calls, state) == Out(NoExc, result, calls, {}, << >>)
Return(result, calls, state) == Out(NoExc, result, calls, state.file_ids, state.loaded_files)

_serialize_chunk(chunk) ==
    [document_id |-> chunk.document_id,
     chunk_number |-> chunk.chunk_number,
     score |-> chunk.score,
     content |-> CASE chunk.content.kind = "text" -> chunk.content.v
                   [] chunk.content.kind = "image" -> "<image size=" \o chunk.content.v \o ">"
                   [] OTHER -> "str(" \o chunk.content.v \o ")",
     metadata |-> chunk.metadata,
     content_type |-> chunk.content_type,
     filename |-> chunk.filename,
     download_url |-> chunk.download_url]

SerializeAll(chunks) == [i \in 1..Len(chunks) |-> _serialize_chunk(chunks[i])]

\* k = int(arguments.get("k") or 4)
RetrieveK(arguments) == IntOf(PyOr(Get(arguments.k), PyInt(DefaultK)))

_retrieve_chunks(arguments, state, env) ==
    LET query == Get(arguments.query)
        k == RetrieveK(arguments)
        reply == IF env.morphik = "ok" THEN RetrieveReply(k.n, env) ELSE << >>
        call == [svc |-> "morphik", op |-> "retrieve_chunks", query |-> query, k |-> k.n,
                 use_colpali |-> TRUE, output_format |-> DEFAULT_CHUNK_OUTPUT_FORMAT,
                 reply |-> reply]
    IN  IF ~Truthy(query) THEN Raise(Exc("ValueError", "query is required"), << >>, state)
        ELSE IF k.exc # NoExc THEN Raise(k.exc, << >>, state)
        ELSE IF env.morphik # "ok" THEN Raise(Exc(env.morphik, "retrieve_chunks"), << call >>, state)
        ELSE Return([query |-> query, k |-> k.n,
                     chunks |-> SerializeAll(reply)], << call >>, state)

\* Mutant of ChunkSources: range(start_chunk, end_chunk).
ChunkSourcesExclusive(document_id, start_chunk, end_chunk) ==
    [i \in 1..(end_chunk - start_chunk) |->
        [document_id |-> document_id, chunk_number |-> start_chunk + i - 1]]

\* range(start_chunk, end_chunk + 1) as retrieval sources
ChunkSources(document_id, start_chunk, end_chunk) ==
    [i \in 1..(end_chunk - start_chunk + 1) |->
        [document_id |-> document_id, chunk_number |-> start_chunk + i - 1]]

\* Mutant of BothGiven: `or` for `and`.
EitherGiven(start, end) == start # None \/ end # None

\* Mutant of EndBeforeStart: off by one.
EndBeforeStartOffByOne(start_chunk, end_chunk) == end_chunk < start_chunk - 1

\* `start is not None and end is not None`
BothGiven(start, end) == start # None /\ end # None

\* `end_chunk < start_chunk`
EndBeforeStart(start_chunk, end_chunk) == end_chunk < start_chunk

\* Mutant of _get_page_range: the chunk pair is tested before the page pair.
GetPageRangeChunkFirst(arguments, state, env) ==
    LET document_id == Get(arguments.document_id)
        start_page == Get(arguments.start_page)
        end_page == Get(arguments.end_page)
        start_chunk == Get(arguments.start_chunk)
        end_chunk == Get(arguments.end_chunk)
        sp == IntOf(start_page)
        ep == IntOf(end_page)
        sc == IntOf(start_chunk)
        ec == IntOf(end_chunk)
        pcall == [svc |-> "morphik", op |-> "extract_document_pages",
                  document_id |-> document_id, start_page |-> sp.n, end_page |-> ep.n,
                  output_format |-> DEFAULT_PAGE_OUTPUT_FORMAT]
        sources == ChunkSources(document_id, sc.n, ec.n)
        reply == IF env.morphik = "ok" THEN BatchReply(sources, env) ELSE << >>
        ccall == [svc |-> "morphik", op |-> "batch_get_chunks", sources |-> sources,
                  use_colpali |-> TRUE, output_format |-> DEFAULT_CHUNK_OUTPUT_FORMAT,
                  reply |-> reply]
    IN  IF ~Truthy(document_id)
        THEN Raise(Exc("ValueError", "document_id is required"), << >>, state)
        ELSE IF BothGiven(start_chunk, end_chunk)
        THEN IF sc.exc # NoExc THEN Raise(sc.exc, << >>, state)
             ELSE IF ec.exc # NoExc THEN Raise(ec.exc, << >>, state)
             ELSE IF EndBeforeStart(sc.n, ec.n)
             THEN Raise(Exc("ValueError", "end_chunk must be >= start_chunk"), << >>, state)
             ELSE IF env.morphik # "ok"
             THEN Raise(Exc(env.morphik, "batch_get_chunks"), << ccall >>, state)
             ELSE Return([type |-> "chunks", document_id |-> document_id,
                          start_chunk |-> sc.n, end_chunk |-> ec.n,
                          chunks |-> SerializeAll(reply)],
                         << ccall >>, state)
        ELSE IF BothGiven(start_page, end_page)
        THEN IF sp.exc # NoExc THEN Raise(sp.exc, << >>, state)
             ELSE IF ep.exc # NoExc THEN Raise(ep.exc, << >>, state)
             ELSE IF env.morphik # "ok"
             THEN Raise(Exc(env.morphik, "extract_document_pages"), << pcall >>, state)
             ELSE Return([type |-> "pages", payload |-> PagesReply(document_id, sp.n, ep.n)],
                         << pcall >>, state)
        ELSE Raise(Exc("ValueError", "Provide start_page/end_page or start_chunk/end_chunk"),
                   << >>, state)

_get_page_range(arguments, state, env) ==
    LET document_id == Get(arguments.document_id)
        start_page == Get(arguments.start_page)
        end_page == Get(arguments.end_page)
        start_chunk == Get(arguments.start_chunk)
        end_chunk == Get(arguments.end_chunk)
        sp == IntOf(start_page)
        ep == IntOf(end_page)
        sc == IntOf(start_chunk)
        ec == IntOf(end_chunk)
        pcall == [svc |-> "morphik", op |-> "extract_document_pages",
                  document_id |-> document_id, start_page |-> sp.n, end_page |-> ep.n,
                  output_format |-> DEFAULT_PAGE_OUTPUT_FORMAT]
        sources == ChunkSources(document_id, sc.n, ec.n)
        reply == IF env.morphik = "ok" THEN BatchReply(sources, env) ELSE << >>
        ccall == [svc |-> "morphik", op |-> "batch_get_chunks", sources |-> sources,
                  use_colpali |-> TRUE, output_format |-> DEFAULT_CHUNK_OUTPUT_FORMAT,
                  reply |-> reply]
    IN  IF ~Truthy(document_id)
        THEN Raise(Exc("ValueError", "document_id is required"), << >>, state)
        ELSE IF BothGiven(start_page, end_page)
        THEN IF sp.exc # NoExc THEN Raise(sp.exc, << >>, state)
             ELSE IF ep.exc # NoExc THEN Raise(ep.exc, << >>, state)
             ELSE IF env.morphik # "ok"
             THEN Raise(Exc(env.morphik, "extract_document_pages"), << pcall >>, state)
             ELSE Return([type |-> "pages", payload |-> PagesReply(document_id, sp.n, ep.n)],
                         << pcall >>, state)
        ELSE IF BothGiven(start_chunk, end_chunk)
        THEN IF sc.exc # NoExc THEN Raise(sc.exc, << >>, state)
             ELSE IF ec.exc # NoExc THEN Raise(ec.exc, << >>, state)
             ELSE IF EndBeforeStart(sc.n, ec.n)
             THEN Raise(Exc("ValueError", "end_chunk must be >= start_chunk"), << >>, state)
             ELSE IF env.morphik # "ok"
             THEN Raise(Exc(env.morphik, "batch_get_chunks"), << ccall >>, state)
             ELSE Return([type |-> "chunks", document_id |-> document_id,
                          start_chunk |-> sc.n, end_chunk |-> ec.n,
                          chunks |-> SerializeAll(reply)],
                         << ccall >>, state)
        ELSE Raise(Exc("ValueError", "Provide start_page/end_page or start_chunk/end_chunk"),
                   << >>, state)

\* completed_only as the handler passes it on
CompletedOnly(arguments) ==
    LET completed_only == GetDefault(arguments.completed_only, PyBool(FALSE))
    IN  IF completed_only.t = "str"
        THEN PyBool(Lower(completed_only.s) = "true")
        ELSE completed_only

_list_documents(arguments, state, env) ==
    LET skip == IntOf(PyOr(Get(arguments.skip), PyInt(DefaultSkip)))
        limit == IntOf(PyOr(Get(arguments.limit), PyInt(DefaultLimit)))
        call == [svc |-> "morphik", op |-> "list_documents", skip |-> skip.n, limit |-> limit.n,
                 completed_only |-> CompletedOnly(arguments),
                 sort_by |-> GetDefault(arguments.sort_by, PyStr("updated_at")),
                 sort_direction |-> GetDefault(arguments.sort_direction, PyStr("desc"))]
    IN  IF skip.exc # NoExc THEN Raise(skip.exc, << >>, state)
        ELSE IF limit.exc # NoExc THEN Raise(limit.exc, << >>, state)
        ELSE IF env.morphik # "ok" THEN Raise(Exc(env.morphik, "list_documents"), << call >>, state)
        ELSE Return(ListingReply(skip.n, limit.n), << call >>, state)

\* The key a document id has in loaded_files (ids are strings here).
DocKey(document_id) == document_id.s

\* document.filename or f"{document_id}"
FileName(document_id, env) == IF env.filename # "" THEN env.filename ELSE DocKey(document_id)

\* Mutant of IsLoaded: the cache is never consulted.
IsLoadedNever(document_id, loaded_files) == FALSE

\* The cached branch: document_id in loaded_files
IsLoaded(document_id, loaded_files) == DocKey(document_id) \in DOMAIN loaded_files

\* Mutant of RecordLoaded: the file id is not added to file_ids.
RecordLoadedNoFileId(document_id, file_id, filename, state) ==
    [file_ids |-> state.file_ids,
     loaded_files |->
        [d \in DOMAIN state.loaded_files \cup {DocKey(document_id)} |->
            IF d = DocKey(document_id)
            THEN [file_id |-> file_id, filename |-> filename]
            ELSE state.loaded_files[d]]]

\* The session state after a completed upload (tools.py lines 223-224).
RecordLoaded(document_id, file_id, filename, state) ==
    [file_ids |-> state.file_ids \cup {file_id},
     loaded_files |->
        [d \in DOMAIN state.loaded_files \cup {DocKey(document_id)} |->
            IF d = DocKey(document_id)
            THEN [file_id |-> file_id, filename |-> filename]
            ELSE state.loaded_files[d]]]

_load_file_for_execution(arguments, state, env) ==
    LET document_id == Get(arguments.document_external_id)
        filename == FileName(document_id, env)
        c1 == [svc |-> "morphik", op |-> "get_document", document_id |-> document_id]
        c2 == [svc |-> "morphik", op |-> "get_document_file", document_id |-> document_id]
        c3 == [svc |-> "openai", op |-> "files.create", filename |-> filename,
               purpose |-> "assistants"]
        after == RecordLoaded(document_id, env.file_id, filename, state)
    IN  IF ~Truthy(document_id)
        THEN Raise(Exc("ValueError", "document_external_id is required"), << >>, state)
        ELSE IF document_id.t = "list"
        THEN Raise(Exc("TypeError", "unhashable type"), << >>, state)
        ELSE IF IsLoaded(document_id, state.loaded_files)
        THEN Return([document_id |-> document_id,
                     file_id |-> state.loaded_files[DocKey(document_id)].file_id,
                     filename |-> state.loaded_files[DocKey(document_id)].filename,
                     status |-> "already_loaded"], << >>, state)
        ELSE IF DocKey(document_id) \notin DocIds
        THEN Raise(Exc("NotFound", "get_document"), << c1 >>, state)
        ELSE IF env.morphik # "ok" THEN Raise(Exc(env.morphik, "get_document"), << c1 >>, state)
        ELSE IF env.file # "ok" THEN Raise(Exc(env.file, "get_document_file"), << c1, c2 >>, state)
        ELSE IF env.upload # "ok" THEN Raise(Exc(env.upload, "files.create"), << c1, c2, c3 >>, state)
        ELSE Out(NoExc,
                 [document_id |-> document_id, file_id |-> env.file_id,
                  filename |-> filename, status |-> "loaded"],
                 << c1, c2, c3 >>, after.file_ids, after.loaded_files)

\* The tool names of the catalog, and one name that is not in it.
ToolNames == {"retrieve_chunks", "get_page_range", "list_documents", "load_file_for_execution"}
UnknownName == "delete_document"

\* arguments: a decoded JSON value; [t |-> "dict", d |-> the keys' values] for
\* an object. A handler's first arguments.get(...) on anything else raises
\* AttributeError.
Dict(d) == [t |-> "dict", n |-> 0, s |-> "", d |-> d]
\* Mutant of IsDict: any decoded value is taken for an argument object.
IsDictAlways(arguments) == TRUE
IsDict(arguments) == arguments.t = "dict"

run_tool_call(name, arguments, state, env) ==
    IF name \notin ToolNames THEN Raise(Exc("ValueError", "Unknown tool"), << >>, state)
    ELSE IF ~IsDict(arguments)
    THEN Raise(Exc("AttributeError", "object has no attribute 'get'"), << >>, state)
    ELSE CASE name = "retrieve_chunks" -> _retrieve_chunks(arguments.d, state, env)
           [] name = "get_page_range" -> _get_page_range(arguments.d, state, env)
           [] name = "list_documents" -> _list_documents(arguments.d, state, env)
           [] name = "load_file_for_execution" ->
                _load_file_for_execution(arguments.d, state, env)

\* ---------------------------------------------------------- agent.py

\* json.dumps(value, default=str, ensure_ascii=True): the JSON text, as the
\* document it encodes (an object with the value's keys).
_json_dumps(value) == [json |-> "object", keys |-> DOMAIN value, body |-> value]

\* A tool call's argument string. form: "object" (a JSON object, decoding to
\* d), "empty" (None or ""), "malformed" (no JSON), or a JSON value that is
\* no object: "null", "array", "number", "string".
Raw(form, d) == [form |-> form, d |-> d]

\* A decoded value that is no object, in the shape of Dict.
NonDict(v) == [t |-> v.t, n |-> v.n, s |-> v.s, d |-> EmptyArgs]

\* json.loads(text)
json_loads(raw) ==
    CASE raw.form = "object" -> [exc |-> NoExc, value |-> Dict(raw.d)]
      [] raw.form = "null" -> [exc |-> NoExc, value |-> NonDict(None)]
      [] raw.form = "array" -> [exc |-> NoExc, value |-> NonDict(PyList(1))]
      [] raw.form = "number" -> [exc |-> NoExc, value |-> NonDict(PyInt(1))]
      [] raw.form = "string" -> [exc |-> NoExc, value |-> NonDict(PyStr("d1"))]
      [] OTHER -> [exc |-> Exc("JSONDecodeError", "Expecting value"), value |-> NonDict(None)]

\* Mutant of ParseArguments: no `except json.JSONDecodeError`.
ParseArgumentsNoCatch(raw) ==
    json_loads(IF raw.form = "empty" THEN Raw("object", EmptyArgs) ELSE raw)

\* agent.py lines 50-53: json.loads(call.arguments or "{}"), and {} when it
\* raises JSONDecodeError. Any other exception of json.loads propagates.
ParseArguments(raw) ==
    LET r == json_loads(IF raw.form = "empty" THEN Raw("object", EmptyArgs) ELSE raw)
    IN  IF r.exc.cls = "JSONDecodeError"
        THEN [exc |-> NoExc, value |-> Dict(EmptyArgs)]
        ELSE r

\* Mutant of Caught: `except ValueError`.
CaughtValueErrorOnly(exc) == exc.cls = "ValueError"

\* `except Exception`: every exception a handler or a service raises here is
\* an Exception.
Caught(exc) == exc # NoExc

\* agent.py lines 54-64: the output string of one call.
CallOutput(out) ==
    IF out.exc = NoExc THEN _json_dumps(out.result)
    ELSE _json_dumps([error |-> out.exc.msg])

\* Mutant of build_tools: the sandbox descriptor lists no file.
BuildToolsNoFiles(ids) ==
    << [type |-> "function", name |-> "retrieve_chunks"],
       [type |-> "function", name |-> "get_page_range"],
       [type |-> "function", name |-> "list_documents"],
       [type |-> "function", name |-> "load_file_for_execution"],
       [type |-> "code_interpreter", container |-> [type |-> "auto", file_ids |-> {}]] >>

\* The catalog: the four function tools and the sandbox descriptor.
build_tools(ids) ==
    << [type |-> "function", name |-> "retrieve_chunks"],
       [type |-> "function", name |-> "get_page_range"],
       [type |-> "function", name |-> "list_documents"],
       [type |-> "function", name |-> "load_file_for_execution"],
       [type |-> "code_interpreter", container |-> [type |-> "auto", file_ids |-> ids]] >>

\* Mutant of _collect_function_calls: no filter on the item type.
CollectAllItems(resp) == resp.output

\* Mutant of _collect_function_calls: no item is taken for a call.
CollectNothing(resp) == << >>

\* Mutant of _collect_function_calls: the calls in reverse order.
CollectCallsReversed(resp) ==
    Reverse(SelectSeq(resp.output, LAMBDA item : item.type = "function_call"))

_collect_function_calls(resp) ==
    SelectSeq(resp.output, LAMBDA item : item.type = "function_call")

\* Mutant of ContinuationRequest: the request is not chained to the response.
ContinuationUnchained(outputs, resp, ids) ==
    [input |-> outputs, previous_response_id |-> 0, tools |-> build_tools(ids)]

\* agent.py lines 74-80: the request that continues the conversation.
ContinuationRequest(outputs, resp, ids) ==
    [input |-> outputs, previous_response_id |-> resp.id, tools |-> build_tools(ids)]

\* ------------------------------------------------- what the model asks

\* The argument objects the model sends.
QueryArg == PyStr("refund policy")
ArgsRetrieve == [EmptyArgs EXCEPT !.query = QueryArg, !.k = PyInt(2)]
ArgsChunks == [EmptyArgs EXCEPT !.document_id = PyStr("d1"),
                                !.start_chunk = PyInt(1), !.end_chunk = PyInt(2)]
ArgsLoad(d) == [EmptyArgs EXCEPT !.document_external_id = PyStr(d)]

\* The JSON values that are no object, and the one each tool is sent.
NonObjectForms == {"null", "array", "number", "string"}
NonObjectFor(name) ==
    CASE name = "retrieve_chunks" -> "null"
      [] name = "get_page_range" -> "array"
      [] name = "list_documents" -> "number"
      [] OTHER -> "string"

\* The function calls a response of the agent loop's model holds: for each
\* tool a call that can succeed (list_documents with malformed arguments
\* does), one with malformed arguments and one whose arguments are JSON but
\* no object; and a call of an unknown tool, with no arguments.
AgentCalls ==
    {[name |-> "retrieve_chunks", arguments |-> Raw("object", ArgsRetrieve)],
     [name |-> "get_page_range", arguments |-> Raw("object", ArgsChunks)],
     [name |-> UnknownName, arguments |-> Raw("empty", EmptyArgs)]}
    \cup {[name |-> "load_file_for_execution", arguments |-> Raw("object", ArgsLoad(d))] :
            d \in DocIds}
    \cup {[name |-> n, arguments |-> Raw("malformed", EmptyArgs)] : n \in ToolNames}
    \cup {[name |-> n, arguments |-> Raw(NonObjectFor(n), EmptyArgs)] : n \in ToolNames}

\* An output item of a response: a function call, or a message.
FunctionCall(c, id) ==
    [type |-> "function_call", call_id |-> id, name |-> c.name, arguments |-> c.arguments,
     text |-> ""]
Message ==
    [type |-> "message", call_id |-> 0, name |-> "", arguments |-> Raw("empty", EmptyArgs),
     text |-> "Refunds are accepted within 30 days."]
ItemChoices == AgentCalls \cup {[name |-> "", arguments |-> Raw("empty", EmptyArgs)]}

\* The outputs a response can hold: up to MaxBatch items; the model service
\* gives the i-th item the call id i.
Outputs ==
    UNION {{[i \in 1..n |-> IF f[i].name = "" THEN Message ELSE FunctionCall(f[i], i)] :
                f \in [1..n -> ItemChoices]} : n \in 0..MaxBatch}

\* The responses of the model service in the process that invokes run_agent
\* again and again: messages and loads of the documents.
LoadChoices ==
    {[name |-> "load_file_for_execution", arguments |-> Raw("object", ArgsLoad(d))] :
        d \in DocIds}
    \cup {[name |-> "", arguments |-> Raw("empty", EmptyArgs)]}
LoadOutputs ==
    UNION {{[i \in 1..n |-> IF f[i].name = "" THEN Message ELSE FunctionCall(f[i], i)] :
                f \in [1..n -> LoadChoices]} : n \in 0..MaxBatch}

\* response.output_text: the texts of the message items, in order.
OutputText(output) ==
    LET msgs == SelectSeq(output, LAMBDA item : item.type = "message")
    IN  [i \in 1..Len(msgs) |-> msgs[i].text]

\* ---------------------------------------------------------------- state

VARIABLES
    pc,            \* where the process is: "idle", "awaiting" (a request is on its
                   \* way to the model service), "serving" (the service has it),
                   \* "responded", "dispatching", "done", "raised";
                   \* under SpecDispatch: "ready", "called", "returned"
    file_ids,      \* state["file_ids"]
    loaded_files,  \* state["loaded_files"]: document id -> [file_id, filename]
    request,       \* the request on its way to the model service
    response,      \* run_agent's response
    tool_calls,    \* run_agent's tool_calls
    idx,           \* the position of the for loop in tool_calls
    tool_outputs,  \* run_agent's tool_outputs
    returned,      \* what run_agent returned
    nreq,          \* requests sent to the model service in this query
    queries,       \* run_agent invocations so far
    nfiles,        \* files uploaded in this query
    call,          \* the call the dispatcher was given (SpecDispatch)
    last,          \* the latest dispatch: the call, the state before, the documents
                   \* loaded before, what it did
    first,         \* per document, the result of its first successful load
    uploads,       \* per document, the uploads completed in this session
    earlier        \* the documents loaded in earlier queries of the process

vars == << pc, file_ids, loaded_files, request, response, tool_calls, idx, tool_outputs,
           returned, nreq, queries, nfiles, call, last, first, uploads, earlier >>

State == [file_ids |-> file_ids, loaded_files |-> loaded_files]
EmptyState == [file_ids |-> {}, loaded_files |-> << >>]

\* Mutant of NewSession: the state of the query before is taken over.
CarriedSession == [file_ids |-> file_ids, loaded_files |-> loaded_files]

\* agent.py line 34: the session state run_agent starts with.
NewSession == [file_ids |-> {}, loaded_files |-> << >>]

NoRequest == [input |-> << >>, previous_response_id |-> 0, tools |-> << >>]
NoResponse == [id |-> 0, output |-> << >>, output_text |-> << >>]
NoCall == [name |-> "", arguments |-> NonDict(None)]
NoDispatch ==
    [name |-> "", arguments |-> NonDict(None), pre |-> EmptyState, before |-> {},
     out |-> Raise(NoExc, << >>, EmptyState)]

\* The id the model service gives the n-th file uploaded in query q: no two
\* uploads get the same id.
FileId(q, n) == << q, n >>

\* What the collaborators can do during one dispatch; fid is the id of the
\* next file. Every call succeeds, or one of them raises.
Orders == {"ranked", "reversed", "short"}
FileNames == {"", "report.xlsx"}
FailEnvs(fid) ==
    {MkEnv("NotFound", "ok", "ok", "ranked", "report.xlsx", fid),
     MkEnv("UpstreamFailure", "ok", "ok", "ranked", "report.xlsx", fid),
     MkEnv("ok", "UpstreamFailure", "ok", "ranked", "report.xlsx", fid),
     MkEnv("ok", "ok", "UpstreamFailure", "ranked", "report.xlsx", fid)}
Envs(fid) ==
    {MkEnv("ok", "ok", "ok", o, fn, fid) : o \in Orders, fn \in FileNames} \cup FailEnvs(fid)
\* Under the agent loop the retrieval service answers in ranked order, the
\* documents have their own filename, and what fails is the document lookup
\* (NotFound), the fetch of the bytes or the upload (UpstreamFailure).
AgentEnvs(fid) ==
    {e \in Envs(fid) : /\ e.order = "ranked"
                       /\ e.filename # ""
                       /\ e.morphik # "UpstreamFailure"}

\* The ghost record of one dispatch, and the bookkeeping of completed uploads.
Dispatched(name, arguments, out) ==
    [name |-> name, arguments |-> arguments, pre |-> State, before |-> DOMAIN first,
     out |-> out]
Uploaded(name, out) ==
    /\ name = "load_file_for_execution"
    /\ \E i \in 1..Len(out.calls) : out.calls[i].op = "files.create"
    /\ out.exc.cls # "UpstreamFailure"

\* The effect of one run_tool_call on the session state and the ghosts.
Apply(name, arguments, out) ==
    /\ file_ids' = out.file_ids
    /\ loaded_files' = out.loaded_files
    /\ last' = Dispatched(name, arguments, out)
    /\ nfiles' = IF Uploaded(name, out) THEN nfiles + 1 ELSE nfiles
    /\ uploads' = IF Uploaded(name, out)
                  THEN [uploads EXCEPT ![DocKey(Get(arguments.d.document_external_id))] = @ + 1]
                  ELSE uploads
    /\ first' = IF name = "load_file_for_execution" /\ out.exc = NoExc
                   /\ DocKey(out.result.document_id) \notin DOMAIN first
                THEN [x \in DOMAIN first \cup {DocKey(out.result.document_id)} |->
                        IF x \in DOMAIN first THEN first[x] ELSE out.result]
                ELSE first

Init ==
    /\ pc = "idle"
    /\ file_ids = {}
    /\ loaded_files = << >>
    /\ request = NoRequest
    /\ response = NoResponse
    /\ tool_calls = << >>
    /\ idx = 1
    /\ tool_outputs = << >>
    /\ returned = << >>
    /\ nreq = 0
    /\ queries = 0
    /\ nfiles = 0
    /\ call = NoCall
    /\ last = NoDispatch
    /\ first = << >>
    /\ uploads = [d \in DocIds |-> 0]
    /\ earlier = {}

\* run_agent(query), lines 34-41: fresh session state, the first request.
\* main calls it once in the life of the process.
RunAgent ==
    /\ pc = "idle"
    /\ queries' = queries + 1
    /\ earlier' = earlier \cup DOMAIN loaded_files
    /\ file_ids' = NewSession.file_ids
    /\ loaded_files' = NewSession.loaded_files
    /\ request' = [input |-> << [role |-> "user", content |-> "query"] >>,
                   previous_response_id |-> 0,
                   tools |-> build_tools(NewSession.file_ids)]
    /\ nreq' = 1
    /\ response' = NoResponse
    /\ tool_calls' = << >>
    /\ idx' = 1
    /\ tool_outputs' = << >>
    /\ returned' = << >>
    /\ last' = NoDispatch
    /\ first' = << >>
    /\ uploads' = [d \in DocIds |-> 0]
    /\ nfiles' = 0
    /\ pc' = "awaiting"
    /\ UNCHANGED call

\* The model service takes the request. run_agent is blocked in
\* openai.responses.create; its locals of the finished iteration are dead
\* (response is assigned by the reply, tool_calls and tool_outputs by the
\* next iteration) and are cleared here.
ModelReceive ==
    /\ pc = "awaiting"
    /\ pc' = "serving"
    /\ request' = NoRequest
    /\ response' = NoResponse
    /\ tool_calls' = << >>
    /\ tool_outputs' = << >>
    /\ idx' = 1
    /\ last' = NoDispatch
    /\ UNCHANGED << file_ids, loaded_files, returned, nreq, queries, earlier, nfiles, call,
                    first, uploads >>

\* The model service answers. It asks for tools in at most MaxRounds
\* responses of a query.
ModelRespond ==
    /\ pc = "serving"
    /\ \E output \in Outputs :
        /\ nreq > MaxRounds => \A i \in 1..Len(output) : output[i].type # "function_call"
        /\ response' = [id |-> nreq, output |-> output, output_text |-> OutputText(output)]
    /\ pc' = "responded"
    /\ UNCHANGED << file_ids, loaded_files, request, tool_calls, idx, tool_outputs,
                    returned, nreq, queries, earlier, nfiles, call, last, first, uploads >>

\* The model service fails: openai.responses.create raises, and run_agent
\* with it.
ModelFail ==
    /\ pc = "serving"
    /\ pc' = "raised"
    /\ UNCHANGED << file_ids, loaded_files, request, response, tool_calls, idx,
                    tool_outputs, returned, nreq, queries, earlier, nfiles, call, last, first, uploads >>

\* Lines 44-46: no function call in the response: return its text.
ReturnText ==
    /\ pc = "responded"
    /\ _collect_function_calls(response) = << >>
    /\ tool_calls' = << >>
    /\ returned' = response.output_text
    /\ pc' = "done"
    /\ UNCHANGED << file_ids, loaded_files, request, response, idx, tool_outputs,
                    nreq, queries, earlier, nfiles, call, last, first, uploads >>

\* Lines 44-49: there are function calls: start the for loop.
StartDispatch ==
    /\ pc = "responded"
    /\ _collect_function_calls(response) # << >>
    /\ tool_calls' = _collect_function_calls(response)
    /\ tool_outputs' = << >>
    /\ idx' = 1
    /\ pc' = "dispatching"
    /\ UNCHANGED << file_ids, loaded_files, request, response, returned,
                    nreq, queries, earlier, nfiles, call, last, first, uploads >>

\* Lines 49-72: one iteration of the for loop.
DispatchCall ==
    /\ pc = "dispatching"
    /\ idx <= Len(tool_calls)
    /\ LET c == tool_calls[idx]
           args == ParseArguments(c.arguments)
       IN  IF args.exc # NoExc
           THEN /\ pc' = "raised"
                /\ UNCHANGED << file_ids, loaded_files, tool_outputs, idx, nfiles, last,
                                first, uploads >>
           ELSE \E env \in AgentEnvs(FileId(queries, nfiles + 1)) :
                  LET out == run_tool_call(c.name, args.value, State, env)
                  IN  /\ Apply(c.name, args.value, out)
                      /\ IF out.exc = NoExc \/ Caught(out.exc)
                         THEN /\ tool_outputs' =
                                    Append(tool_outputs,
                                           [type |-> "function_call_output",
                                            call_id |-> c.call_id,
                                            output |-> CallOutput(out)])
                              /\ idx' = idx + 1
                              /\ pc' = pc
                         ELSE /\ pc' = "raised"
                              /\ UNCHANGED << tool_outputs, idx >>
    /\ UNCHANGED << request, response, tool_calls, returned, nreq, queries, earlier, call >>

\* Lines 74-80: every call has its output: send them as the next turn.
Continue ==
    /\ pc = "dispatching"
    /\ idx > Len(tool_calls)
    /\ request' = ContinuationRequest(tool_outputs, response, file_ids)
    /\ nreq' = nreq + 1
    /\ pc' = "awaiting"
    /\ UNCHANGED << file_ids, loaded_files, response, tool_calls, idx, tool_outputs,
                    returned, queries, earlier, nfiles, call, last, first, uploads >>

Next ==
    \/ RunAgent
    \/ ModelReceive
    \/ ModelRespond
    \/ ModelFail
    \/ ReturnText
    \/ StartDispatch
    \/ DispatchCall
    \/ Continue

Spec == Init /\ [][Next]_vars

\* ------------------------------------- run_agent invoked more than once

\* A caller other than main invokes run_agent again once the invocation
\* before has returned or raised: the same lines 34-41.
RunAgentAgain ==
    /\ pc \in {"done", "raised"}
    /\ queries < MaxQueries
    /\ queries' = queries + 1
    /\ earlier' = earlier \cup DOMAIN loaded_files
    /\ file_ids' = NewSession.file_ids
    /\ loaded_files' = NewSession.loaded_files
    /\ request' = [input |-> << [role |-> "user", content |-> "query"] >>,
                   previous_response_id |-> 0,
                   tools |-> build_tools(NewSession.file_ids)]
    /\ nreq' = 1
    /\ response' = NoResponse
    /\ tool_calls' = << >>
    /\ idx' = 1
    /\ tool_outputs' = << >>
    /\ returned' = << >>
    /\ last' = NoDispatch
    /\ first' = << >>
    /\ uploads' = [d \in DocIds |-> 0]
    /\ nfiles' = 0
    /\ pc' = "awaiting"
    /\ UNCHANGED call

\* The model service answers, asking for loads only.
ModelRespondLoads ==
    /\ pc = "serving"
    /\ \E output \in LoadOutputs :
        /\ nreq > MaxRounds => \A i \in 1..Len(output) : output[i].type # "function_call"
        /\ response' = [id |-> nreq, output |-> output, output_text |-> OutputText(output)]
    /\ pc' = "responded"
    /\ UNCHANGED << file_ids, loaded_files, request, tool_calls, idx, tool_outputs,
                    returned, nreq, queries, earlier, nfiles, call, last, first, uploads >>

NextQueries ==
    \/ RunAgent
    \/ RunAgentAgain
    \/ ModelReceive
    \/ ModelRespondLoads
    \/ ModelFail
    \/ ReturnText
    \/ StartDispatch
    \/ DispatchCall
    \/ Continue

SpecQueries == Init /\ [][NextQueries]_vars

\* The agent loop with run_agent's own control steps taken whenever they
\* stay possible: the process runs, nothing preempts it for ever. Nothing is
\* assumed of the two services.
SpecLive ==
    /\ Init
    /\ [][Next]_vars
    /\ WF_vars(ReturnText)
    /\ WF_vars(StartDispatch)
    /\ WF_vars(Continue)

\* ------------------------------------------------- the dispatcher alone

\* run_tool_call on its own: any sequence of calls on one session state,
\* with every argument value the handlers tell apart.
NumVals == {PyInt(n) : n \in 0..MaxNum}
QueryVals == {Absent, None, PyStr(""), QueryArg}
KVals ==
    {Absent, None, PyInt(-1), PyFloat(5), PyFloat(25), PyStr("2"), PyStr("0"), PyStr("abc"),
     PyBool(TRUE), PyBool(FALSE), PyList(1)} \cup NumVals
DocVals == {Absent, PyStr(""), PyStr("d1")}
PageVals == {Absent, None, PyInt(1), PyInt(2)}
ChunkVals == {Absent, None, PyFloat(25), PyStr("2"), PyStr("x")} \cup NumVals
CompletedVals ==
    {Absent, None, PyBool(TRUE), PyBool(FALSE), PyStr("true"), PyStr("TRUE"),
     PyStr("false"), PyStr("yes"), PyInt(1), PyInt(0)}
LoadVals ==
    {Absent, None, PyStr(""), PyStr("zz"), PyList(1)} \cup {PyStr(d) : d \in DocIds}

RetrieveArgs == {[EmptyArgs EXCEPT !.query = q, !.k = k] : q \in QueryVals, k \in KVals}
PageRangeArgs ==
    {[EmptyArgs EXCEPT !.document_id = d, !.start_page = sp, !.end_page = ep,
                       !.start_chunk = sc, !.end_chunk = ec] :
        d \in DocVals, sp \in PageVals, ep \in PageVals, sc \in ChunkVals, ec \in ChunkVals}
ListArgs ==
    {[EmptyArgs EXCEPT !.completed_only = c, !.skip = sk, !.limit = l, !.sort_by = sb,
                       !.sort_direction = sd] :
        c \in CompletedVals, sk \in {Absent, PyInt(1), PyStr("x")},
        l \in {Absent, None, PyInt(2)}, sb \in {Absent, None, PyStr("filename")},
        sd \in {Absent, PyStr("asc")}}
LoadArgs == {[EmptyArgs EXCEPT !.document_external_id = d] : d \in LoadVals}

InitDispatch ==
    /\ pc = "ready"
    /\ file_ids = {}
    /\ loaded_files = << >>
    /\ request = NoRequest
    /\ response = NoResponse
    /\ tool_calls = << >>
    /\ idx = 1
    /\ tool_outputs = << >>
    /\ returned = << >>
    /\ nreq = 0
    /\ queries = 0
    /\ nfiles = 0
    /\ call = NoCall
    /\ last = NoDispatch
    /\ first = << >>
    /\ uploads = [d \in DocIds |-> 0]
    /\ earlier = {}

\* The dispatcher is given a call.
Given(name, arguments) ==
    /\ call' = [name |-> name, arguments |-> Dict(arguments)]
    /\ pc' = "called"
    /\ UNCHANGED << file_ids, loaded_files, request, response, tool_calls, idx, tool_outputs,
                    returned, nreq, queries, earlier, nfiles, last, first, uploads >>

CallRetrieveChunks == pc = "ready" /\ \E a \in RetrieveArgs : Given("retrieve_chunks", a)
CallGetPageRange == pc = "ready" /\ \E a \in PageRangeArgs : Given("get_page_range", a)
CallListDocuments == pc = "ready" /\ \E a \in ListArgs : Given("list_documents", a)
CallLoadFile == pc = "ready" /\ \E a \in LoadArgs : Given("load_file_for_execution", a)
CallUnknownTool == pc = "ready" /\ Given(UnknownName, EmptyArgs)

\* run_tool_call runs, to its return or its exception.
Handle ==
    /\ pc = "called"
    /\ \E env \in Envs(FileId(queries, nfiles + 1)) :
         Apply(call.name, call.arguments, run_tool_call(call.name, call.arguments, State, env))
    /\ pc' = "returned"
    /\ UNCHANGED << request, response, tool_calls, idx, tool_outputs, returned, nreq,
                    queries, earlier, call >>

\* The caller has the result; the dispatcher is free for the next call.
Resume ==
    /\ pc = "returned"
    /\ pc' = "ready"
    /\ call' = NoCall
    /\ last' = NoDispatch
    /\ UNCHANGED << file_ids, loaded_files, request, response, tool_calls, idx, tool_outputs,
                    returned, nreq, queries, earlier, nfiles, first, uploads >>

NextDispatch ==
    \/ CallRetrieveChunks
    \/ CallGetPageRange
    \/ CallListDocuments
    \/ CallLoadFile
    \/ CallUnknownTool
    \/ Handle
    \/ Resume

SpecDispatch == InitDispatch /\ [][NextDispatch]_vars

\* --------------------------------------------------------------- claims

\* The handlers' own argument errors (the spec's InvalidArgument).
InvalidArgument(exc) ==
    /\ exc.cls = "ValueError"
    /\ exc.msg \in {"query is required", "document_id is required",
                    "document_external_id is required", "end_chunk must be >= start_chunk",
                    "Provide start_page/end_page or start_chunk/end_chunk"}

\* The argument has a value: the key is there and is not null.
Supplied(v) == v.t \notin {"absent", "null"}

\* The latest dispatch's argument object, and the document it would load.
LastArgs == last.arguments.d
LoadKey == LastArgs.document_external_id.s
LastIsReload == last.name = "load_file_for_execution" /\ LoadKey \in last.before

\* C1: once load_file_for_execution has succeeded for a document, every later
\* load of it in the session returns the first call's file_id and filename
\* with status "already_loaded" and calls neither service; no document is
\* uploaded twice.
C1_LoadIdempotent ==
    /\ \A d \in DocIds : uploads[d] <= 1
    /\ LastIsReload =>
        /\ last.out.exc = NoExc
        /\ last.out.result.status = "already_loaded"
        /\ last.out.result.file_id = first[LoadKey].file_id
        /\ last.out.result.filename = first[LoadKey].filename
        /\ last.out.calls = << >>

\* A document whose first load fell back to the document id as filename is
\* loaded again.
C1_Witness ==
    /\ pc = "returned"
    /\ LastIsReload
    /\ first[LoadKey].filename = LoadKey
    /\ last.out.result.status = "already_loaded"

\* C2: every key of loaded_files has its file_id in file_ids.
C2_LoadedFilesMaterialized ==
    \A d \in DOMAIN loaded_files : loaded_files[d].file_id \in file_ids

\* Both documents are loaded and the latest call failed.
C2_Witness ==
    /\ pc = "dispatching"
    /\ DOMAIN loaded_files = DocIds
    /\ last.name # ""
    /\ last.out.exc # NoExc

\* The latest call of the batch, and its output entry.
Dispatching == pc = "dispatching" /\ idx >= 2 /\ last.name # ""
LatestCall == tool_calls[idx - 1]
LatestOutput == tool_outputs[idx - 1]
IsErrorOutput(o) == o.output.json = "object" /\ "error" \in o.output.keys

\* C3: a handler's exception does not leave run_agent: the call's output is
\* a JSON object with an "error" key, the loop goes on with the batch, and
\* the request that follows carries one output per call.
C3_HandlerErrorsCaptured ==
    /\ pc = "raised" => tool_calls = << >>
    /\ pc = "dispatching" => Len(tool_outputs) = idx - 1 /\ idx <= Len(tool_calls) + 1
    /\ (Dispatching /\ last.out.exc # NoExc) =>
        /\ LatestOutput.call_id = LatestCall.call_id
        /\ IsErrorOutput(LatestOutput)
    /\ (pc = "awaiting" /\ nreq > 1) =>
        /\ request.input = tool_outputs
        /\ Len(tool_outputs) = Len(tool_calls)
        /\ \A i \in 1..Len(tool_outputs) : tool_outputs[i].output.json = "object"

\* A batch whose first call failed at the retrieval service and whose second
\* call succeeded has been sent to the model.
C3_Witness ==
    /\ pc = "awaiting"
    /\ Len(request.input) = 2
    /\ request.input[1].output.body = [error |-> "get_document"]
    /\ ~IsErrorOutput(request.input[2])

\* C4: a call whose argument string is no JSON is dispatched with an empty
\* argument object and run_agent does not raise: list_documents runs with its
\* defaults, the other tools fail with their missing-argument error, which
\* becomes the call's error output.
Unparseable == Dispatching /\ LatestCall.arguments.form \in {"malformed", "empty"}
C4_MalformedArguments ==
    /\ pc = "raised" => tool_calls = << >>
    /\ Unparseable =>
        /\ last.name = LatestCall.name
        /\ last.arguments = Dict(EmptyArgs)
        /\ LatestOutput.call_id = LatestCall.call_id
        /\ last.name = "list_documents" =>
            /\ Len(last.out.calls) = 1
            /\ last.out.calls[1].skip = DefaultSkip
            /\ last.out.calls[1].limit = DefaultLimit
            /\ last.out.calls[1].completed_only = PyBool(FALSE)
            /\ last.out.calls[1].sort_by = PyStr("updated_at")
            /\ last.out.calls[1].sort_direction = PyStr("desc")
        /\ last.name \in ToolNames \ {"list_documents"} =>
            /\ InvalidArgument(last.out.exc)
            /\ last.out.exc.msg \in {"query is required", "document_id is required",
                                     "document_external_id is required"}
            /\ last.out.calls = << >>
            /\ IsErrorOutput(LatestOutput)

\* A malformed retrieve_chunks call gave an error output and the call after
\* it, a malformed list_documents, returned the listing.
C4_Witness ==
    /\ pc = "dispatching"
    /\ idx = 3
    /\ tool_calls[1].name = "retrieve_chunks"
    /\ tool_calls[1].arguments.form = "malformed"
    /\ IsErrorOutput(tool_outputs[1])
    /\ tool_calls[2].name = "list_documents"
    /\ tool_calls[2].arguments.form = "malformed"
    /\ ~IsErrorOutput(tool_outputs[2])

\* C5: when the first response holds no function call, run_agent has made
\* one request, dispatches nothing, leaves the session state empty and
\* returns that response's output_text.
FirstHasNoCall ==
    /\ response.id = 1
    /\ \A i \in 1..Len(response.output) : response.output[i].type # "function_call"
C5_NoToolNeeded ==
    FirstHasNoCall =>
        /\ nreq = 1
        /\ pc \in {"responded", "done"}
        /\ last = NoDispatch
        /\ tool_outputs = << >>
        /\ file_ids = {}
        /\ loaded_files = << >>
        /\ pc = "done" => returned = response.output_text
        /\ pc = "responded" => ENABLED ReturnText /\ ~ENABLED StartDispatch

\* run_agent returned the text of a first response made of messages only.
C5_Witness ==
    /\ pc = "done"
    /\ FirstHasNoCall
    /\ Len(response.output) = 2
    /\ returned = << Message.text, Message.text >>

\* The latest dispatch is a get_page_range call with a document id; whether
\* each pair has both its values; the chunk pair as the handler coerces it.
PageRangeCall ==
    /\ pc = "returned"
    /\ last.name = "get_page_range"
    /\ Truthy(Get(LastArgs.document_id))
PagePair == Supplied(LastArgs.start_page) /\ Supplied(LastArgs.end_page)
ChunkPair == Supplied(LastArgs.start_chunk) /\ Supplied(LastArgs.end_chunk)
StartChunk == IntOf(LastArgs.start_chunk)
EndChunk == IntOf(LastArgs.end_chunk)
ChunkMode ==
    /\ PageRangeCall
    /\ ~PagePair
    /\ ChunkPair
    /\ StartChunk.exc = NoExc
    /\ EndChunk.exc = NoExc

\* C6: a get_page_range call with a document id in which neither pair has
\* both its values fails with InvalidArgument and calls no service.
C6_NeitherPairGiven ==
    (PageRangeCall /\ ~PagePair /\ ~ChunkPair) =>
        /\ InvalidArgument(last.out.exc)
        /\ last.out.exc.msg = "Provide start_page/end_page or start_chunk/end_chunk"
        /\ last.out.calls = << >>
        /\ last.out.file_ids = last.pre.file_ids
        /\ last.out.loaded_files = last.pre.loaded_files

\* One member of each pair is given: start_page and end_chunk.
C6_Witness ==
    /\ PageRangeCall
    /\ Supplied(LastArgs.start_page)
    /\ LastArgs.end_page = Absent
    /\ LastArgs.start_chunk = None
    /\ Supplied(LastArgs.end_chunk)
    /\ InvalidArgument(last.out.exc)

\* C7: in chunk mode, end_chunk < start_chunk (as integers) fails with
\* InvalidArgument, with no source built and no batched fetch.
C7_EndBeforeStart ==
    (ChunkMode /\ EndChunk.n < StartChunk.n) =>
        /\ InvalidArgument(last.out.exc)
        /\ last.out.exc.msg = "end_chunk must be >= start_chunk"
        /\ last.out.calls = << >>

\* end_chunk is one below start_chunk, the nearest failing case.
C7_Witness ==
    /\ ChunkMode
    /\ EndChunk.n = StartChunk.n - 1
    /\ last.out.exc = Exc("ValueError", "end_chunk must be >= start_chunk")

\* C8: in chunk mode with start_chunk <= end_chunk there is exactly one
\* batched fetch, of end_chunk - start_chunk + 1 sources, for the document
\* and the chunk numbers start_chunk, ..., end_chunk in ascending order; the
\* chunks returned are the service's reply, in its order.
C8_ChunkRange ==
    (ChunkMode /\ StartChunk.n <= EndChunk.n) =>
        /\ Len(last.out.calls) = 1
        /\ last.out.calls[1].op = "batch_get_chunks"
        /\ LET sources == last.out.calls[1].sources
               reply == last.out.calls[1].reply
           IN  /\ Len(sources) = EndChunk.n - StartChunk.n + 1
               /\ \A i \in 1..Len(sources) :
                    sources[i] = [document_id |-> Get(LastArgs.document_id),
                                  chunk_number |-> StartChunk.n + i - 1]
               /\ last.out.exc = NoExc =>
                    /\ last.out.result.type = "chunks"
                    /\ Len(last.out.result.chunks) = Len(reply)
                    /\ \A i \in 1..Len(reply) :
                         /\ last.out.result.chunks[i].document_id = reply[i].document_id
                         /\ last.out.result.chunks[i].chunk_number = reply[i].chunk_number

\* Chunks 1..MaxNum are asked for and the service replies in reverse order.
C8_Witness ==
    /\ ChunkMode
    /\ StartChunk.n = 1
    /\ EndChunk.n = MaxNum
    /\ last.out.exc = NoExc
    /\ Len(last.out.result.chunks) = MaxNum
    /\ last.out.result.chunks[1].chunk_number = MaxNum

\* C9: the completed_only that list_documents passes to the retrieval
\* service is a boolean: true for boolean true and for a string equal to
\* "true" ignoring case, false for every other argument value.
C9_CompletedOnlyBoolean ==
    (pc = "returned" /\ last.name = "list_documents" /\ last.out.calls # << >>) =>
        last.out.calls[1].completed_only =
            PyBool(\/ LastArgs.completed_only = PyBool(TRUE)
                   \/ /\ LastArgs.completed_only.t = "str"
                      /\ LastArgs.completed_only.s \in {"true", "TRUE", "True"})

\* C10: retrieve_chunks never calls the retrieval service with k < 1: an
\* absent k is 4, and a k that coerces to an integer below 1 fails with
\* InvalidArgument and no call.
C10_KAtLeastOne ==
    (pc = "returned" /\ last.name = "retrieve_chunks") =>
        /\ \A i \in 1..Len(last.out.calls) : last.out.calls[i].k >= 1
        /\ (LastArgs.k = Absent /\ last.out.calls # << >>) => last.out.calls[1].k = DefaultK
        /\ (/\ Truthy(Get(LastArgs.query))
            /\ Supplied(LastArgs.k)
            /\ IntOf(LastArgs.k).exc = NoExc
            /\ IntOf(LastArgs.k).n < 1) =>
                /\ last.out.exc.cls = "ValueError"
                /\ last.out.calls = << >>

\* The service operations the latest dispatch called.
FetchOps == {last.out.calls[i].op : i \in 1..Len(last.out.calls)}

\* C11: a get_page_range call makes at most one fetch, the page-range fetch
\* or the batched chunk fetch, and its result is typed "pages" or "chunks"
\* accordingly; when both pairs have both their values the page branch runs
\* and the chunk pair plays no part (not even in an error).
C11_ModesExclusive ==
    /\ (pc = "returned" /\ last.name = "get_page_range") =>
        /\ Len(last.out.calls) <= 1
        /\ last.out.exc = NoExc =>
            \/ last.out.result.type = "pages" /\ FetchOps = {"extract_document_pages"}
            \/ last.out.result.type = "chunks" /\ FetchOps = {"batch_get_chunks"}
    /\ (PageRangeCall /\ PagePair /\ ChunkPair) =>
        /\ FetchOps = {"extract_document_pages"}
        /\ last.out.calls[1].start_page = LastArgs.start_page.n
        /\ last.out.calls[1].end_page = LastArgs.end_page.n
        /\ last.out.exc = NoExc => last.out.result.type = "pages"
        /\ last.out.exc # NoExc => last.out.exc.msg = "extract_document_pages"

\* Both pairs are given, the chunk pair unusable (end before start, and a
\* start that is no number): the pages are returned.
C11_Witness ==
    /\ PageRangeCall
    /\ PagePair
    /\ LastArgs.start_chunk = PyStr("x")
    /\ LastArgs.end_chunk = PyInt(0)
    /\ last.out.exc = NoExc
    /\ last.out.result.type = "pages"

\* A required argument that is missing (no key, or null) or empty.
Missing(v) == v \in {Absent, None, PyStr("")}
\* The latest dispatch failed with this argument error before any service
\* call, and the session state is as it was.
Rejected(msg) ==
    /\ last.out.exc = Exc("ValueError", msg)
    /\ InvalidArgument(last.out.exc)
    /\ last.out.calls = << >>
    /\ State = last.pre
    /\ nfiles = Cardinality(last.pre.file_ids)

\* C12: retrieve_chunks without a query, get_page_range without a
\* document_id and load_file_for_execution without a document_external_id
\* (missing or empty) fail with InvalidArgument, call no service and leave the
\* session state as it was.
C12_RequiredArgument ==
    pc = "returned" =>
        /\ (last.name = "retrieve_chunks" /\ Missing(LastArgs.query)) =>
                Rejected("query is required")
        /\ (last.name = "get_page_range" /\ Missing(LastArgs.document_id)) =>
                Rejected("document_id is required")
        /\ (last.name = "load_file_for_execution" /\ Missing(LastArgs.document_external_id)) =>
                Rejected("document_external_id is required")

\* With a document loaded, a load with an empty document id is rejected.
C12_Witness ==
    /\ pc = "returned"
    /\ last.name = "load_file_for_execution"
    /\ LastArgs.document_external_id = PyStr("")
    /\ last.pre.file_ids # {}
    /\ Rejected("document_external_id is required")

\* The positions of the function-call items of a response, and the position
\* of the j-th of them.
CallPositions(output) == {i \in 1..Len(output) : output[i].type = "function_call"}
NthCallPosition(output, j) ==
    CHOOSE i \in CallPositions(output) :
        Cardinality({m \in CallPositions(output) : m <= i}) = j

\* C13: in a dispatch round the calls are the response's function-call
\* items in the order received; each step of the round dispatches the next
\* call and appends one output carrying that call's id; the continuation
\* holds exactly one output per function-call item, in the items' order,
\* under the items' call ids.
C13_OneOutputPerCall ==
    /\ [](pc = "dispatching" =>
            /\ Len(tool_calls) = Cardinality(CallPositions(response.output))
            /\ \A j \in 1..Len(tool_calls) :
                    tool_calls[j] = response.output[NthCallPosition(response.output, j)]
            /\ Len(tool_outputs) = idx - 1
            /\ \A j \in 1..Len(tool_outputs) :
                    /\ tool_outputs[j].type = "function_call_output"
                    /\ tool_outputs[j].call_id = tool_calls[j].call_id)
    /\ []((pc = "awaiting" /\ nreq > 1) =>
            /\ Len(request.input) = Cardinality(CallPositions(response.output))
            /\ \A j \in 1..Len(request.input) :
                    /\ request.input[j].type = "function_call_output"
                    /\ request.input[j].call_id =
                            response.output[NthCallPosition(response.output, j)].call_id)
    /\ [][(pc = "dispatching" /\ pc' = "dispatching") =>
            /\ idx' = idx + 1
            /\ last'.name = tool_calls[idx].name
            /\ tool_outputs' = Append(tool_outputs, tool_outputs'[idx])
            /\ tool_calls' = tool_calls
            /\ response' = response]_vars
    /\ [][(pc = "dispatching" /\ pc' # "dispatching") =>
            /\ pc' = "awaiting"
            /\ idx = Len(tool_calls) + 1]_vars

\* A response of a message and a call of an unknown tool: the continuation
\* holds the one error output, under the call's id 2.
C13_Witness ==
    /\ pc = "awaiting"
    /\ Len(response.output) = 2
    /\ response.output[1].type = "message"
    /\ response.output[2].name = UnknownName
    /\ Len(request.input) = 1
    /\ request.input[1].call_id = 2
    /\ IsErrorOutput(request.input[1])

\* The sandbox descriptors of the request on its way, and their file ids.
Sandboxes ==
    {request.tools[i] : i \in {j \in 1..Len(request.tools) :
                                    request.tools[j].type = "code_interpreter"}}
SandboxFiles == UNION {sb.container.file_ids : sb \in Sandboxes}

\* C14: a request to the model service carries one sandbox descriptor, whose
\* file ids are the session's file_ids when it is sent: none on the first
\* request, afterwards the file of every upload completed in the query so
\* far; within a query file_ids never loses a file.
C14_SandboxSeesFiles ==
    /\ [](pc = "awaiting" =>
            /\ Cardinality(Sandboxes) = 1
            /\ SandboxFiles = file_ids
            /\ nreq = 1 => SandboxFiles = {}
            /\ SandboxFiles = {FileId(queries, n) : n \in 1..nfiles}
            /\ \A d \in DOMAIN loaded_files : loaded_files[d].file_id \in SandboxFiles)
    /\ [][queries' = queries => file_ids \subseteq file_ids']_vars

\* The third request of a query: its round had one call, which loaded the
\* query's second file; the request lists both files.
C14_Witness ==
    /\ pc = "awaiting"
    /\ nreq = 3
    /\ Len(tool_calls) = 1
    /\ last.name = "load_file_for_execution"
    /\ last.out.exc = NoExc
    /\ last.out.result.status = "loaded"
    /\ SandboxFiles = {FileId(queries, 1), FileId(queries, 2)}

\* A model request is outstanding: sent and not yet answered.
Outstanding == pc \in {"awaiting", "serving"}

\* C15: a request is sent only when none is outstanding; while one is
\* outstanding no tool is dispatched (the session state, the upload count
\* and the record of the latest dispatch do not move); a continuation is
\* sent when every call of the batch has its output, its input is exactly
\* those outputs and its previous_response_id is the id of the response
\* whose calls they answer, the latest one received.
C15_SequentialChained ==
    /\ [][pc' = "awaiting" => ~Outstanding]_vars
    /\ [][Outstanding =>
            /\ UNCHANGED << file_ids, loaded_files, nfiles, uploads, first >>
            /\ last' \in {last, NoDispatch}]_vars
    /\ []((pc = "awaiting" /\ nreq = 1) =>
            /\ request.previous_response_id = 0
            /\ request.input = << [role |-> "user", content |-> "query"] >>)
    /\ []((pc = "awaiting" /\ nreq > 1) =>
            /\ tool_calls # << >>
            /\ tool_calls = SelectSeq(response.output, LAMBDA item : item.type = "function_call")
            /\ Len(tool_outputs) = Len(tool_calls)
            /\ request.input = tool_outputs
            /\ \A i \in 1..Len(request.input) :
                    request.input[i].type = "function_call_output"
            /\ request.previous_response_id = response.id
            /\ response.id = nreq - 1)

\* The third request of a query answers the two calls of response 2.
C15_Witness ==
    /\ pc = "awaiting"
    /\ nreq = 3
    /\ request.previous_response_id = 2
    /\ Len(request.input) = 2
    /\ Len(tool_calls) = 2

\* The response in hand holds no function call / holds one.
NoCallInResponse == pc = "responded" /\ CallPositions(response.output) = {}
CallInResponse == pc = "responded" /\ CallPositions(response.output) # {}

C17_OnlyLoadChangesState ==
    /\ nfiles = 0 => (file_ids = {} /\ loaded_files = << >>)
    /\ Cardinality(file_ids) = nfiles
    /\ pc = "returned" =>
        /\ last.name \in {"retrieve_chunks", "get_page_range", "list_documents"} =>
                State = last.pre
        /\ last.name \notin ToolNames =>
                /\ last.out.exc = Exc("ValueError", "Unknown tool")
                /\ last.out.calls = << >>
                /\ State = last.pre
        /\ last.out.exc # NoExc => State = last.pre
        /\ (/\ last.name = "load_file_for_execution"
            /\ last.out.exc = NoExc
            /\ last.out.result.status = "already_loaded") => State = last.pre
        /\ State # last.pre =>
                /\ last.name = "load_file_for_execution"
                /\ last.out.exc = NoExc
                /\ last.out.result.status = "loaded"
                /\ "files.create" \in FetchOps
                /\ file_ids = last.pre.file_ids \cup {last.out.result.file_id}

\* With both documents loaded, a chunk retrieval succeeds.
C17_Witness ==
    /\ pc = "returned"
    /\ last.name = "retrieve_chunks"
    /\ last.out.exc = NoExc
    /\ DOMAIN last.pre.loaded_files = DocIds
    /\ State = last.pre

\* The latest dispatch is a load_file_for_execution that returned; the
\* operations of its service calls, in order.
LoadReturned == last.name = "load_file_for_execution" /\ last.out.exc = NoExc
CallOps == [i \in 1..Len(last.out.calls) |-> last.out.calls[i].op]

\* C18: every run_agent invocation sends its first request with an empty
\* session state; the state never holds a file of another query; a load is
\* answered "already_loaded" only for a document loaded in this query, and a
\* document loaded in an earlier query is looked up, fetched and uploaded
\* again, under a new file id.
C18_SessionsNotShared ==
    /\ (pc = "awaiting" /\ nreq = 1) => (file_ids = {} /\ loaded_files = << >>)
    /\ \A f \in file_ids : f[1] = queries
    /\ \A d \in DOMAIN loaded_files : loaded_files[d].file_id[1] = queries
    /\ LoadReturned =>
        /\ last.out.result.status = "already_loaded" => LoadKey \in last.before
        /\ (LoadKey \in earlier /\ LoadKey \notin last.before) =>
            /\ last.out.result.status = "loaded"
            /\ CallOps = << "get_document", "get_document_file", "files.create" >>
            /\ last.out.result.file_id[1] = queries
            /\ last.out.result.file_id \notin last.pre.file_ids

\* In the second query the document d1, loaded in the first, is loaded anew.
C18_Witness ==
    /\ queries = 2
    /\ "d1" \in earlier
    /\ LoadReturned
    /\ LoadKey = "d1"
    /\ last.before = {}
    /\ last.out.result.status = "loaded"
    /\ last.out.result.file_id = FileId(2, 1)

\* The steps a load can fail at, by the service call that raised.
LoadFailures == {"get_document", "get_document_file", "files.create"}

\* C19: a load_file_for_execution that fails at the lookup, the fetch or the
\* upload leaves file_ids and loaded_files as they were and counts no
\* upload; a load of a document not loaded so far in the session (so also
\* one whose earlier load failed) is not served from the cache: it looks up,
\* fetches and uploads, and returns status "loaded".
C19_FailedLoadLeavesNoTrace ==
    /\ (last.name = "load_file_for_execution" /\ last.out.exc # NoExc) =>
        /\ State = last.pre
        /\ DOMAIN first = last.before
        /\ nfiles = Cardinality(last.pre.file_ids)
        /\ LoadKey \in DOMAIN loaded_files => LoadKey \in DOMAIN last.pre.loaded_files
    /\ (LoadReturned /\ LoadKey \notin last.before) =>
        /\ last.out.result.status = "loaded"
        /\ CallOps = << "get_document", "get_document_file", "files.create" >>
        /\ loaded_files[LoadKey].file_id = last.out.result.file_id
    /\ (Dispatching /\ idx = 3 /\ tool_calls[1].name = "load_file_for_execution"
            /\ tool_calls[2] = [tool_calls[1] EXCEPT !.call_id = 2]
            /\ tool_outputs[1].output.keys = {"error"}
            /\ tool_outputs[1].output.body.error \in LoadFailures) =>
        \/ tool_outputs[2].output.keys = {"error"}
        \/ tool_outputs[2].output.body.status = "loaded"

\* A batch of two loads of d1: the first failed at the fetch of the bytes,
\* the second went through.
C19_Witness ==
    /\ Dispatching
    /\ idx = 3
    /\ tool_calls[1].name = "load_file_for_execution"
    /\ tool_calls[2] = [tool_calls[1] EXCEPT !.call_id = 2]
    /\ tool_outputs[1].output.keys = {"error"}
    /\ tool_outputs[1].output.body.error = "get_document_file"
    /\ LoadReturned
    /\ LoadKey = "d1"
    /\ last.out.result.status = "loaded"
    /\ tool_outputs[2].output.body.status = "loaded"

\* The latest call of the batch had arguments that are JSON but no object.
NonObject == Dispatching /\ LatestCall.arguments.form \in NonObjectForms

\* C20: a call of a known tool whose arguments are valid JSON but no object
\* does not make run_agent raise: the value is handed to the dispatcher as
\* it is, the handler fails on it before any service call, the session
\* state stays, the call's output is a JSON object with an "error" key, and
\* the batch goes on to the next request.
C20_NonObjectArguments ==
    /\ pc = "raised" => (tool_calls = << >> /\ last = NoDispatch)
    /\ (NonObject /\ LatestCall.name \in ToolNames) =>
        /\ last.name = LatestCall.name
        /\ last.arguments.t \in {"null", "list", "int", "str"}
        /\ last.out.exc.cls = "AttributeError"
        /\ last.out.calls = << >>
        /\ State = last.pre
        /\ nfiles = Cardinality(last.pre.file_ids)
        /\ LatestOutput.call_id = LatestCall.call_id
        /\ LatestOutput.output.json = "object"
        /\ LatestOutput.output.keys = {"error"}
    /\ (pc = "awaiting" /\ nreq > 1) =>
        \A i \in 1..Len(tool_calls) :
            (tool_calls[i].arguments.form \in NonObjectForms /\ tool_calls[i].name \in ToolNames) =>
                /\ Len(request.input) >= i
                /\ "error" \in request.input[i].output.keys

\* list_documents with the number 1 for arguments gave an error output, the
\* next call of the batch succeeded, and both outputs went to the model.
C20_Witness ==
    /\ pc = "awaiting"
    /\ Len(tool_calls) = 2
    /\ tool_calls[1].name = "list_documents"
    /\ tool_calls[1].arguments.form = "number"
    /\ request.input[1].output.keys = {"error"}
    /\ ~IsErrorOutput(request.input[2])

====
